---- MODULE Spec2Model ----
(***************************************************************************)
(* Session/channel layer of the SSH server (package sshd): ServerConn,     *)
(* Channel, the shell/exec/sftp work units and the request codec.          *)
(*                                                                         *)
(* Text is modelled as Go models it: a string is a sequence of bytes.      *)
(* Literal Go strings that are only ever written to a reply buffer or      *)
(* compared with each other are kept as TLA+ strings.                      *)
(***************************************************************************)
EXTENDS Integers, Sequences, FiniteSets, TLC

(* ------------------------------ bounds -------------------------------- *)
\* channel-open notifications the accept loop handles
MaxChans == 2
\* requests the request loops of the connection's channels handle, all together
MaxReqs == 2
\* shell / exec / sftp work units started over the connection's lifetime
MaxWork == 2

(* --------------------------- request codec ---------------------------- *)
\* the value of "no error"
nil == "<nil>"

\* binary.BigEndian.Uint32(b[0:4])
BigEndianUint32(b) == b[1] * 16777216 + b[2] * 65536 + b[3] * 256 + b[4]

\* payload[n:]
Drop(b, n) == SubSeq(b, n + 1, Len(b))

\* binary.BigEndian.Uint32(b[:4]) as its two 16-bit halves: the value is
\* hi * 65536 + lo
Uint32Halves(b) == [hi |-> b[1] * 256 + b[2], lo |-> b[3] * 256 + b[4]]

\* the width of int in the build the connection is modelled for
IntSize == 64

\* a Go int: v is its value, and over says the value is above 2147483647 (as
\* only an int of 64 bits can be), which is all that is kept of it then
IntMax32 == 2147483647

\* int(u) for the uint32 u, in a build whose int has bits bits
ToInt(bits, u) ==
    IF u.hi < 32768 THEN [over |-> FALSE, v |-> u.hi * 65536 + u.lo]
    ELSE IF bits = 32 THEN [over |-> FALSE, v |-> (u.hi - 65536) * 65536 + u.lo]
    ELSE [over |-> TRUE, v |-> 0]

\* n + 4, which wraps around in an int of 32 bits
Plus4(bits, n) ==
    IF n.over THEN n
    ELSE IF n.v <= IntMax32 - 4 THEN [over |-> FALSE, v |-> n.v + 4]
    ELSE IF bits = 32 THEN [over |-> FALSE, v |-> ((n.v - IntMax32) + 3) - IntMax32 - 1]
    ELSE [over |-> TRUE, v |-> 0]

\* %d of the int n that came from u
IntString(n, u) ==
    IF n.over THEN ToString(u.hi) \o "*65536+" \o ToString(u.lo) ELSE ToString(n.v)

\* parseString in a build whose int has bits bits; panic is the run-time panic
\* of the slice expression b[4 : l+4] when l+4 is below 4
parseStringOn(bits, b) ==
    IF Len(b) < 4
    THEN [result |-> <<>>, consumed |-> 0, panic |-> FALSE,
          err |-> "number of bytes in less than 4: " \o ToString(Len(b))]
    ELSE LET u == Uint32Halves(b)
             l == ToInt(bits, u)
             h == Plus4(bits, l)
         IN  IF h.over \/ Len(b) < h.v
             THEN [result |-> <<>>, consumed |-> 0, panic |-> FALSE,
                   err |-> "string length is " \o IntString(l, u) \o ", but input only has "
                           \o ToString(Len(b))
                           \o " bytes (including the 4 bytes length prefix)"]
             ELSE IF h.v < 4
             THEN [result |-> <<>>, consumed |-> 0, panic |-> TRUE, err |-> nil]
             ELSE [result |-> SubSeq(b, 5, h.v), consumed |-> h.v, panic |-> FALSE,
                   err |-> nil]

parseString(b) == parseStringOn(IntSize, b)

parseWindowSize(b) ==
    IF Len(b) < 16
    THEN [widthCharacter |-> 0, heightCharacter |-> 0, widthPixel |-> 0,
          heightPixel |-> 0,
          err |-> "number of bytes is less than 16: " \o ToString(Len(b))]
    ELSE [widthCharacter |-> BigEndianUint32(SubSeq(b, 1, 4)),
          heightCharacter |-> BigEndianUint32(SubSeq(b, 5, 8)),
          widthPixel |-> BigEndianUint32(SubSeq(b, 9, 12)),
          heightPixel |-> BigEndianUint32(SubSeq(b, 13, 16)),
          err |-> nil]

\* setWindowSize(fd, row, col) with row, col already cut to uint16; ioctlOk is
\* the outcome of the TIOCSWINSZ call
setWindowSize(row, col, ioctlOk) ==
    IF row = 0 \/ col = 0 THEN nil
    ELSE IF ioctlOk THEN nil ELSE "ioctl failed"

\* uint16(x)
Uint16(x) == x % 65536

(* ------------------------- request payloads --------------------------- *)
\* the wire form of a string: 4-byte big-endian length, then the bytes
Str(s) == <<0, 0, 0, Len(s)>> \o s
\* the wire form of a window size
Quad(w, h) == <<0, 0, 0, w, 0, 0, 0, h, 0, 0, 0, 0, 0, 0, 0, 0>>

sftpName == <<115, 102, 116, 112>>
scpName == <<115, 99, 112>>
termName == <<118, 116>>
envA == <<65>>
envB == <<66>>
val1 == <<49>>
lsCmd == <<108, 115>>

Payloads ==
    { <<>>,                                  \* empty
      <<0, 0, 1>>,                           \* shorter than a length prefix
      <<0, 0, 0, 5, 97>>,                    \* length prefix past the end
      Str(sftpName),
      Str(scpName),
      Str(envA) \o Str(val1),
      Str(envB) \o Str(val1),
      Str(termName) \o Quad(80, 24),
      Str(termName) \o Quad(0, 24),
      Str(termName) \o SubSeq(Quad(80, 24), 1, 15),
      Quad(80, 24),
      Quad(80, 0),
      Str(lsCmd),
      Str(lsCmd) \o Str(envA),
      Str(lsCmd) \o <<0, 0>> }

ReqTypes == {"subsystem", "pty-req", "window-change", "env", "shell", "exec", "x11-req"}

\* ssh.Request: Type, Payload, WantReply
Requests == [Type : ReqTypes, Payload : Payloads, WantReply : BOOLEAN]

\* one well-formed request of every type, a malformed one, and one of an
\* unknown type
LoopRequests ==
    { [Type |-> "subsystem", Payload |-> Str(sftpName), WantReply |-> TRUE],
      [Type |-> "pty-req", Payload |-> Str(termName) \o Quad(80, 24), WantReply |-> TRUE],
      [Type |-> "window-change", Payload |-> Quad(80, 24), WantReply |-> TRUE],
      [Type |-> "env", Payload |-> Str(envA) \o Str(val1), WantReply |-> TRUE],
      [Type |-> "env", Payload |-> <<0, 0, 1>>, WantReply |-> TRUE],
      [Type |-> "shell", Payload |-> <<>>, WantReply |-> TRUE],
      [Type |-> "exec", Payload |-> Str(lsCmd), WantReply |-> FALSE],
      [Type |-> "x11-req", Payload |-> <<>>, WantReply |-> FALSE] }

(* ------------------------------- state -------------------------------- *)
VARIABLES
    chans,       \* ServerConn.chans: the Channel records, in creation order
    wg,          \* ServerConn.wg, the counter shared with every Channel
    work,        \* the goroutines started by processReq (shell, exec, sftp)
    connDone,    \* ServerConn.baseCtx is cancelled
    newchan,     \* ServerConn.newchanchan: notifications handled and the answers
                 \* given to them, closed
    serverLoop,  \* position of ServerConn.Loop
    closer,      \* position and locals of a ServerConn.Close call
    sshcon,      \* Close() calls on the transport (ServerConn.sshcon)
    lastReq,     \* the request processReq handled last and the reply it sent
    panicked,    \* a goroutine panicked: the process is gone
    parse        \* a call of parseString: the build, the buffer, what it returned

vars == <<chans, wg, work, connDone, newchan, serverLoop, closer, sshcon,
          lastReq, panicked, parse>>

\* the Channel built by procesNewChan; accepted is FALSE when newchannel.Accept
\* failed, which leaves channel and requests nil. files are the os.File values
\* pty.Open made for this channel, each the number of Close() calls on it; pty
\* and tty index files, 0 being nil
NewChannel(accepted) ==
    [channel |-> accepted,
     requests |-> IF accepted THEN "open" ELSE "nil",
     env |-> <<>>, tty |-> 0, pty |-> 0, files |-> <<>>,
     cancelled |-> FALSE, sftpServer |-> FALSE,
     loop |-> "running", nreq |-> 0,
     ops |-> <<>>]

\* the Close() calls made on the channel's stream
Closes(c) == Len(SelectSeq(c.ops, LAMBDA o : o.op = "Close"))

\* the "exit-status" messages sent on the channel's stream
ExitStatus(c) == SelectSeq(c.ops, LAMBDA o : o.op = "exit-status")

\* c.baseCtx.Done() is readable: the channel's own cancel was called or the
\* context it derives from is cancelled
ChanDone(i) == chans[i].cancelled \/ connDone

(* ------------------------- Channel.processReq ------------------------- *)
\* msgLogError that logs and writes nothing to the reply buffer
msgLogErrorSilent(wantReplay, payloadBuf, msg, err) == payloadBuf

msgLogError(wantReplay, payloadBuf, msg, err) ==
    IF wantReplay THEN payloadBuf \o <<msg, ": ", err>> ELSE payloadBuf

\* a failure path that also closes the channel's stream
FailedClosing(c, req, msg, err) ==
    [ok |-> FALSE, buf |-> msgLogError(req.WantReply, <<>>, msg, err),
     chan |-> [c EXCEPT !.ops = Append(@, [op |-> "Close", payload |-> <<>>])],
     spawn |-> "none", commands |-> <<>>]

\* a return after msgLogError: ok stays false and the channel is as it was
Failed(c, req, msg, err) ==
    [ok |-> FALSE, buf |-> msgLogError(req.WantReply, <<>>, msg, err),
     chan |-> c, spawn |-> "none", commands |-> <<>>]

\* a fall through the switch with ok = true
Succeeded(c, spawn, commands) ==
    [ok |-> TRUE, buf |-> <<>>, chan |-> c, spawn |-> spawn, commands |-> commands]

reqSubsystem(c, req, newServerOk) ==
    LET p == parseString(req.Payload)
    IN  IF p.err /= nil
        THEN Failed(c, req, "failed to find the subsystem requested", p.err)
        ELSE IF p.result /= sftpName
        THEN Failed(c, req, "unsupported system", p.result)
        ELSE IF ~newServerOk
        THEN Failed(c, req, "failed to create sftp server over channel", "sftp.NewServer failed")
        ELSE Succeeded([c EXCEPT !.sftpServer = TRUE], "sftp", <<>>)

reqPtyReq(c, req, openOk) ==
    LET p == parseString(req.Payload)
        w == parseWindowSize(Drop(req.Payload, p.consumed))
    IN  IF p.err /= nil
        THEN Failed(c, req, "failed to parse terminfo", p.err)
        ELSE IF w.err /= nil
        THEN Failed(c, req, "failed to parse window size", w.err)
        ELSE IF ~openOk
        THEN Failed(c, req, "failed to create new pty", "pty.Open failed")
        ELSE Succeeded([c EXCEPT !.pty = Len(c.files) + 1, !.tty = Len(c.files) + 2,
                                 !.files = @ \o <<0, 0>>],
                       "none", <<>>)

\* the window-change case without its c.pty == nil check
reqWindowChangeNoCheck(c, req, ioctlOk) ==
    LET w == parseWindowSize(req.Payload)
        e == setWindowSize(Uint16(w.heightCharacter), Uint16(w.widthCharacter), ioctlOk)
    IN  IF w.err /= nil
        THEN Failed(c, req, "failed to parse window size", w.err)
        ELSE IF e /= nil
        THEN Failed(c, req, "failed to set window size", e)
        ELSE Succeeded(c, "none", <<>>)

reqWindowChange(c, req, ioctlOk) ==
    IF c.pty = 0
    THEN Failed(c, req, "cannot setup pty", "pty is not setup")
    ELSE LET w == parseWindowSize(req.Payload)
             e == setWindowSize(Uint16(w.heightCharacter), Uint16(w.widthCharacter), ioctlOk)
         IN  IF w.err /= nil
             THEN Failed(c, req, "failed to parse window size", w.err)
             ELSE IF e /= nil
             THEN Failed(c, req, "failed to set window size", e)
             ELSE Succeeded(c, "none", <<>>)

reqEnv(c, req) ==
    LET n == parseString(req.Payload)
        v == parseString(Drop(req.Payload, n.consumed))
    IN  IF n.err /= nil
        THEN Failed(c, req, "failed to get environment name", n.err)
        ELSE IF v.err /= nil
        THEN Failed(c, req, "failed to get environment value", v.err)
        ELSE Succeeded([c EXCEPT !.env = Append(@, n.result \o <<61>> \o v.result)],
                       "none", <<>>)

reqShell(c, req) ==
    IF Len(req.Payload) > 0
    THEN Failed(c, req, "shell doesn't accept payload", req.Payload)
    ELSE IF c.pty = 0
    THEN Failed(c, req, "pty is not yet setup", "pty is not yet setup")
    ELSE Succeeded(c, "shell", <<>>)

\* the loop of the exec case: the commands parsed off payload, or the error
RECURSIVE parseCommands(_, _)
parseCommands(payload, commands) ==
    IF Len(payload) = 0 THEN [commands |-> commands, err |-> nil]
    ELSE LET p == parseString(payload)
         IN  IF p.err /= nil THEN [commands |-> commands, err |-> p.err]
             ELSE parseCommands(Drop(payload, p.consumed), Append(commands, p.result))

\* the exec case without its len(commands) <= 1 check
reqExecNoCount(c, req) ==
    LET r == parseCommands(req.Payload, <<"-c">>)
    IN  IF r.err /= nil
        THEN Failed(c, req, "failed to parse command", r.err)
        ELSE Succeeded(c, "exec", r.commands)

reqExec(c, req) ==
    LET r == parseCommands(req.Payload, <<"-c">>)
    IN  IF r.err /= nil
        THEN Failed(c, req, "failed to parse command", r.err)
        ELSE IF Len(r.commands) <= 1
        THEN Failed(c, req, "no commands in exec", req.Payload)
        ELSE Succeeded(c, "exec", r.commands)

reqDefault(c, req) == Failed(c, req, "unsupported req type", req.Type)

\* the switch of processReq on channel record c; sysOk is the outcome of the
\* one call of the case that may fail outside the program: sftp.NewServer,
\* pty.Open, the ioctl of setWindowSize
processReq(c, req, sysOk) ==
    CASE req.Type = "subsystem" -> reqSubsystem(c, req, sysOk)
      [] req.Type = "pty-req" -> reqPtyReq(c, req, sysOk)
      [] req.Type = "window-change" -> reqWindowChange(c, req, sysOk)
      [] req.Type = "env" -> reqEnv(c, req)
      [] req.Type = "shell" -> reqShell(c, req)
      [] req.Type = "exec" -> reqExec(c, req)
      [] OTHER -> reqDefault(c, req)

\* the goroutine processReq starts for a successful subsystem, shell or exec;
\* atReq is what c.tty and c.env are as the request is processed, which the
\* goroutine is not given: it reads the fields of c itself once it runs
NewWork(i, kind, commands) ==
    [ch |-> i, kind |-> kind, commands |-> commands,
     atReq |-> [tty |-> chans[i].tty, env |-> chans[i].env],
     pc |-> IF kind = "sftp" THEN "serve" ELSE "start",
     bound |-> "unset", env |-> <<>>, proc |-> "none", code |-> 0,
     waiter |-> 0, copyIn |-> "none", copyOut |-> "none"]

(* -------------------------------- Init -------------------------------- *)
NoReq == [ch |-> 0, Type |-> "", Payload |-> <<>>, WantReply |-> FALSE, ok |-> FALSE,
          replies |-> <<>>]

\* no call of parseString outside a request
NoParse == [bits |-> IntSize, b |-> <<>>, out |-> <<>>]

Init ==
    /\ chans = <<>>
    /\ wg = 0
    /\ work = <<>>
    /\ connDone = FALSE
    /\ newchan = [handled |-> 0, answers |-> <<>>, closed |-> FALSE]
    /\ serverLoop = "running"
    /\ closer = [pc |-> "idle", n |-> 0, i |-> 0, errs |-> <<>>, result |-> <<>>]
    /\ sshcon = 0
    /\ lastReq = NoReq
    /\ panicked = FALSE
    /\ parse = NoParse

\* no goroutine has panicked, and Close() has not yet returned: the model
\* follows the connection up to the return of Close()
Alive == ~panicked /\ closer.pc /= "returned"

(* ---------------------------- Channel.Loop ---------------------------- *)
\* case req, ok := <-c.requests with ok true: c.processReq(req), the deferred
\* req.Reply included
ChanRecv(i, reqs) ==
    /\ Alive
    /\ i \in 1..Len(chans)
    /\ chans[i].loop = "running"
    /\ chans[i].requests = "open"
    /\ \E req \in reqs, sysOk \in BOOLEAN :
          LET out == processReq(chans[i], req, sysOk)
              go == out.spawn /= "none"
          IN  /\ go => Len(work) < MaxWork
              /\ chans' = [chans EXCEPT ![i] = [out.chan EXCEPT !.nreq = @ + 1]]
              /\ wg' = IF go THEN wg + 1 ELSE wg
              /\ work' = IF go THEN Append(work, NewWork(i, out.spawn, out.commands))
                         ELSE work
              /\ lastReq' = [ch |-> i, Type |-> req.Type, Payload |-> req.Payload,
                             WantReply |-> req.WantReply, ok |-> out.ok,
                             replies |-> IF req.WantReply
                                         THEN <<[ok |-> out.ok, payload |-> out.buf]>>
                                         ELSE <<>>]
    /\ UNCHANGED <<connDone, newchan, serverLoop, closer, sshcon, panicked, parse>>

\* case req, ok := <-c.requests with ok false, the peer or the transport having
\* closed the request source: break reqloop, and the s.wg.Done() deferred by
\* the goroutine procesNewChan started
ChanLoopClosed(i) ==
    /\ Alive
    /\ i \in 1..Len(chans)
    /\ chans[i].loop = "running"
    /\ chans[i].requests = "open"
    /\ chans' = [chans EXCEPT ![i].loop = "done", ![i].requests = "closed"]
    /\ wg' = wg - 1
    /\ UNCHANGED <<work, connDone, newchan, serverLoop, closer, sshcon,
                   lastReq, panicked, parse>>

\* a request loop that closes the channel's stream when its scope is cancelled
ChanLoopCancelledClosing(i) ==
    /\ Alive
    /\ i \in 1..Len(chans)
    /\ chans[i].loop = "running"
    /\ ChanDone(i)
    /\ chans' = [chans EXCEPT ![i].loop = "done",
                              ![i].ops = Append(@, [op |-> "Close", payload |-> <<>>])]
    /\ wg' = wg - 1
    /\ UNCHANGED <<work, connDone, newchan, serverLoop, closer, sshcon,
                   lastReq, panicked, parse>>

\* case <-c.baseCtx.Done(): break reqloop, and the deferred s.wg.Done()
ChanLoopCancelled(i) ==
    /\ Alive
    /\ i \in 1..Len(chans)
    /\ chans[i].loop = "running"
    /\ ChanDone(i)
    /\ chans' = [chans EXCEPT ![i].loop = "done"]
    /\ wg' = wg - 1
    /\ UNCHANGED <<work, connDone, newchan, serverLoop, closer, sshcon,
                   lastReq, panicked, parse>>

(* ------------------------ shell and exec work ------------------------- *)
\* ProcessState.ExitCode(): the exit status, or -1 for a process a signal ended
ExitCodes == {0, -1}

\* binary.BigEndian.AppendUint32(nil, uint32(x)): the four bytes of x in two's
\* complement, most significant first
AppendUint32(x) ==
    <<(x \div 16777216) % 256, (x \div 65536) % 256, (x \div 256) % 256, x % 256>>

\* the goroutine of a shell or exec request runs up to torun.Start(): the exec
\* goroutine picks noTtyCmd or ttyCmd on c.tty, ttyCmd builds its environment
\* from c.env, and on a successful start ttyCmd starts the two copy goroutines
StartCmd(w) ==
    LET u == work[w]
        c == chans[u.ch]
        tty == u.kind = "shell" \/ c.tty /= 0
    IN  /\ Alive
        /\ w \in 1..Len(work)
        /\ u.pc = "start"
        /\ \E startOk \in BOOLEAN :
              work' = [work EXCEPT ![w] =
                  [u EXCEPT !.bound = IF tty THEN "tty" ELSE "pipe",
                            !.env = IF tty THEN <<"USER", "HOME">> \o c.env ELSE <<>>,
                            !.proc = IF startOk THEN "running" ELSE "none",
                            !.copyIn = IF tty /\ startOk THEN "running" ELSE "none",
                            !.copyOut = IF tty /\ startOk THEN "running" ELSE "none",
                            !.pc = IF tty THEN "ttyClose" ELSE "cmdWait"]]
        /\ UNCHANGED <<chans, wg, connDone, newchan, serverLoop, closer, sshcon,
                       lastReq, panicked, parse>>

\* ttyCmd's deferred function: c.tty.Close()
TtyClose(w) ==
    LET u == work[w]
    IN  /\ Alive
        /\ w \in 1..Len(work)
        /\ u.pc = "ttyClose"
        /\ chans' = [chans EXCEPT ![u.ch].files[chans[u.ch].tty] = @ + 1]
        /\ work' = [work EXCEPT ![w].pc = "waiter"]
        /\ UNCHANGED <<wg, connDone, newchan, serverLoop, closer, sshcon,
                       lastReq, panicked, parse>>

\* ttyCmd's deferred function: <-waiter
WaiterRecv(w) ==
    /\ Alive
    /\ w \in 1..Len(work)
    /\ work[w].pc = "waiter"
    /\ work[w].waiter > 0
    /\ work' = [work EXCEPT ![w].pc = "cmdWait"]
    /\ UNCHANGED <<chans, wg, connDone, newchan, serverLoop, closer, sshcon,
                   lastReq, panicked, parse>>

\* the process exits
ProcExit(w) ==
    /\ Alive
    /\ w \in 1..Len(work)
    /\ work[w].proc = "running"
    /\ \E code \in ExitCodes :
          work' = [work EXCEPT ![w].proc = "exited", ![w].code = code]
    /\ UNCHANGED <<chans, wg, connDone, newchan, serverLoop, closer, sshcon,
                   lastReq, panicked, parse>>

\* io.Copy of one copy goroutine returns and its deferred select runs: the
\* default case is taken when waiter is still open
CopyEnd(w, d) ==
    /\ Alive
    /\ w \in 1..Len(work)
    /\ work[w][d] = "running"
    /\ work' = [work EXCEPT ![w][d] = IF work[w].waiter > 0 THEN "done" ELSE "closing"]
    /\ UNCHANGED <<chans, wg, connDone, newchan, serverLoop, closer, sshcon,
                   lastReq, panicked, parse>>

\* close(waiter) of the default case; closing a closed channel panics
CopyCloseWaiter(w, d) ==
    /\ Alive
    /\ w \in 1..Len(work)
    /\ work[w][d] = "closing"
    /\ work' = [work EXCEPT ![w][d] = "done", ![w].waiter = @ + 1]
    /\ panicked' = (work[w].waiter > 0)
    /\ UNCHANGED <<chans, wg, connDone, newchan, serverLoop, closer, sshcon,
                   lastReq, parse>>

\* what was done on the channel's stream (ssh.Channel), in order
StreamOp(op, payload) == [op |-> op, payload |-> payload]

\* c.channel.SendRequest(name, wantReply, payload)
SendRequest(name, wantReply, payload) ==
    [op |-> name, wantReply |-> wantReply, payload |-> payload]

\* a finishCmd that returns when cmd.Wait() fails
finishCmdStopOnError(w) ==
    LET u == work[w]
    IN  /\ Alive
        /\ w \in 1..Len(work)
        /\ u.pc = "cmdWait"
        /\ u.proc /= "running"
        /\ chans' = [chans EXCEPT ![u.ch].ops =
                        IF u.proc = "none" THEN @
                        ELSE @ \o << StreamOp("CloseWrite", <<>>),
                                     SendRequest("exit-status", FALSE, AppendUint32(u.code)),
                                     StreamOp("Close", <<>>) >>]
        /\ wg' = wg - 1
        /\ work' = [work EXCEPT ![w].pc = "done"]
        /\ UNCHANGED <<connDone, newchan, serverLoop, closer, sshcon, lastReq, panicked,
                       parse>>

\* finishCmd, once cmd.Wait() returns (at once, with an error, when the process
\* was never started): CloseWrite, the exit code, SendRequest("exit-status",
\* false, code) and Close on the stream, each made whatever the one before
\* returned; then the c.wg.Done() deferred by the goroutine that ran ttyCmd or
\* noTtyCmd
finishCmd(w) ==
    LET u == work[w]
        exitcode == IF u.proc = "exited" THEN u.code ELSE 255
    IN  /\ Alive
        /\ w \in 1..Len(work)
        /\ u.pc = "cmdWait"
        /\ u.proc /= "running"
        /\ chans' = [chans EXCEPT ![u.ch].ops =
                        @ \o << StreamOp("CloseWrite", <<>>),
                                SendRequest("exit-status", FALSE, AppendUint32(exitcode)),
                                StreamOp("Close", <<>>) >>]
        /\ wg' = wg - 1
        /\ work' = [work EXCEPT ![w].pc = "done"]
        /\ UNCHANGED <<connDone, newchan, serverLoop, closer, sshcon, lastReq, panicked,
                       parse>>

\* sftpserver.Serve() returns: the deferred c.channel.Close() and c.wg.Done()
ServeEnd(w) ==
    /\ Alive
    /\ w \in 1..Len(work)
    /\ work[w].pc = "serve"
    /\ chans' = [chans EXCEPT ![work[w].ch].ops = Append(@, StreamOp("Close", <<>>))]
    /\ wg' = wg - 1
    /\ work' = [work EXCEPT ![w].pc = "done"]
    /\ UNCHANGED <<connDone, newchan, serverLoop, closer, sshcon,
                   lastReq, panicked, parse>>

(* ----------------------------- ServerConn ----------------------------- *)
ChannelTypes == {"session", "direct-tcpip"}

\* what procesNewChan answered to a notification of type channeltype: Reject
\* with ssh.UnknownChannelType and the type as message, or Accept, ok being
\* false when Accept returned an error
Answer(channeltype, acceptOk) ==
    IF channeltype /= "session"
    THEN [type |-> channeltype, call |-> "Reject", reason |-> "UnknownChannelType",
          message |-> channeltype, ok |-> TRUE]
    ELSE [type |-> channeltype, call |-> "Accept", reason |-> "", message |-> "",
          ok |-> acceptOk]

\* procesNewChan without its channeltype check
procesNewChanAcceptAll(channeltype, acceptOk) ==
    /\ Alive
    /\ serverLoop = "running"
    /\ ~newchan.closed
    /\ newchan' = [newchan EXCEPT !.handled = @ + 1,
                                  !.answers = Append(@, [Answer("session", acceptOk)
                                                        EXCEPT !.type = channeltype])]
    /\ chans' = Append(chans, NewChannel(acceptOk))
    /\ wg' = wg + 1
    /\ UNCHANGED <<work, connDone, serverLoop, closer, sshcon, lastReq, panicked, parse>>

\* case newchan, ok := <-s.newchanchan with ok true: s.procesNewChan(newchan);
\* acceptOk is the outcome of newchannel.Accept()
procesNewChan(channeltype, acceptOk) ==
    /\ Alive
    /\ serverLoop = "running"
    /\ ~newchan.closed
    /\ newchan' = [newchan EXCEPT !.handled = @ + 1,
                                  !.answers = Append(@, Answer(channeltype, acceptOk))]
    /\ IF channeltype /= "session"
       THEN UNCHANGED <<chans, wg>>
       ELSE /\ chans' = Append(chans, NewChannel(acceptOk))
            /\ wg' = wg + 1
    /\ UNCHANGED <<work, connDone, serverLoop, closer, sshcon, lastReq, panicked, parse>>

\* case newchan, ok := <-s.newchanchan with ok false, the transport having
\* closed the source of notifications: break serverloop
ServerLoopClosed ==
    /\ Alive
    /\ serverLoop = "running"
    /\ ~newchan.closed
    /\ newchan' = [newchan EXCEPT !.closed = TRUE]
    /\ serverLoop' = "done"
    /\ UNCHANGED <<chans, wg, work, connDone, closer, sshcon, lastReq, panicked, parse>>

\* case <-s.baseCtx.Done(): break serverloop
ServerLoopCancelled ==
    /\ Alive
    /\ serverLoop = "running"
    /\ connDone
    /\ serverLoop' = "done"
    /\ UNCHANGED <<chans, wg, work, connDone, newchan, closer, sshcon,
                   lastReq, panicked, parse>>

\* the context NewFromConn was given is cancelled by its owner
ParentCancel ==
    /\ Alive
    /\ ~connDone
    /\ connDone' = TRUE
    /\ UNCHANGED <<chans, wg, work, newchan, serverLoop, closer, sshcon,
                   lastReq, panicked, parse>>

\* ServerConn.Close is called and its s.Wait() returns (a call made earlier
\* blocks in Wait, changing nothing, until the counter is zero); errs is made
\* and the range over s.chans begins
CloseWait ==
    /\ Alive
    /\ closer.pc = "idle"
    /\ wg = 0
    /\ closer' = [closer EXCEPT !.pc = "range", !.n = Len(chans), !.i = 1]
    /\ UNCHANGED <<chans, wg, work, connDone, newchan, serverLoop, sshcon,
                   lastReq, panicked, parse>>

\* what a Close() call returns: an error on a closed descriptor or stream, else
\* what the system gives
CloseErr(what, ch, closedBefore, sysOk) ==
    [what |-> what, ch |-> ch, err |-> IF closedBefore \/ ~sysOk THEN "failed" ELSE nil]

\* a Close that returns the first failure instead of errors.Join(errs...)
JoinFirst(errs) ==
    LET bad == SelectSeq(errs, LAMBDA e : e.err /= nil)
    IN  IF bad = <<>> THEN <<>> ELSE <<bad[1]>>

\* errors.Join: the non-nil errors, none of them meaning nil
Join(errs) == SelectSeq(errs, LAMBDA e : e.err /= nil)

CloseOutcomes == [pty : BOOLEAN, tty : BOOLEAN, channel : BOOLEAN]

\* one iteration of the range over s.chans
CloseChild ==
    /\ Alive
    /\ closer.pc = "range"
    /\ closer.i <= closer.n
    /\ \E o \in CloseOutcomes :
          LET i == closer.i
              c == chans[i]
              e1 == IF c.pty /= 0
                    THEN <<CloseErr("pty", i, c.files[c.pty] > 0, o.pty)>> ELSE <<>>
              e2 == IF c.tty /= 0
                    THEN <<CloseErr("tty", i, c.files[c.tty] > 0, o.tty)>> ELSE <<>>
              e3 == IF c.channel
                    THEN <<CloseErr("channel", i, Closes(c) > 0, o.channel)>> ELSE <<>>
          IN  /\ chans' = [chans EXCEPT
                     ![i].cancelled = TRUE,
                     ![i].files = [f \in DOMAIN c.files |->
                                      IF f = c.pty \/ f = c.tty THEN c.files[f] + 1
                                      ELSE c.files[f]],
                     ![i].ops = IF c.channel THEN Append(@, StreamOp("Close", <<>>))
                                ELSE @]
              /\ closer' = [closer EXCEPT !.i = @ + 1, !.errs = @ \o e1 \o e2 \o e3]
    /\ UNCHANGED <<wg, work, connDone, newchan, serverLoop, sshcon,
                   lastReq, panicked, parse>>

\* the range is over: s.baseCancel()
CloseCancel ==
    /\ Alive
    /\ closer.pc = "range"
    /\ closer.i > closer.n
    /\ connDone' = TRUE
    /\ closer' = [closer EXCEPT !.pc = "sshcon"]
    /\ UNCHANGED <<chans, wg, work, newchan, serverLoop, sshcon,
                   lastReq, panicked, parse>>

\* s.sshcon.Close() and return errors.Join(errs...)
CloseReturn ==
    /\ Alive
    /\ closer.pc = "sshcon"
    /\ \E sysOk \in BOOLEAN :
          LET errs == Append(closer.errs, CloseErr("sshcon", 0, sshcon > 0, sysOk))
          IN  closer' = [closer EXCEPT !.pc = "returned", !.errs = errs,
                                       !.result = Join(errs)]
    /\ sshcon' = sshcon + 1
    /\ UNCHANGED <<chans, wg, work, connDone, newchan, serverLoop,
                   lastReq, panicked, parse>>

(* -------------------------------- Next -------------------------------- *)
\* requests handled so far by channels 1..n
RECURSIVE Handled(_)
Handled(n) == IF n = 0 THEN 0 ELSE chans[n].nreq + Handled(n - 1)

Copies == {"copyIn", "copyOut"}

\* the accept loop handles one more notification
NewChan ==
    /\ newchan.handled < MaxChans
    /\ \E t \in ChannelTypes, acceptOk \in BOOLEAN : procesNewChan(t, acceptOk)

\* channel i's request loop handles one more request
Recv(i) == Handled(Len(chans)) < MaxReqs /\ ChanRecv(i, LoopRequests)

Next ==
    \/ NewChan
    \/ ServerLoopClosed
    \/ ServerLoopCancelled
    \/ ParentCancel
    \/ \E i \in 1..MaxChans : Recv(i) \/ ChanLoopClosed(i) \/ ChanLoopCancelled(i)
    \/ \E w \in 1..MaxWork :
          \/ StartCmd(w) \/ TtyClose(w) \/ WaiterRecv(w) \/ ProcExit(w)
          \/ (\E d \in Copies : CopyEnd(w, d) \/ CopyCloseWaiter(w, d))
          \/ finishCmd(w) \/ ServeEnd(w)
    \/ CloseWait
    \/ CloseChild
    \/ CloseCancel
    \/ CloseReturn

Spec == Init /\ [][Next]_vars

\* the session channel is accepted
AcceptSession == Len(chans) = 0 /\ procesNewChan("session", TRUE)

\* the request loop handles one more request, any of Requests
RecvAny == \E i \in 1..Len(chans) : Handled(Len(chans)) < MaxReqs /\ ChanRecv(i, Requests)

\* the request source is closed
RecvClosed == \E i \in 1..Len(chans) : ChanLoopClosed(i)

\* one session channel and its request loop, fed every request of Requests
\* under every outcome of the system calls
ReqNext == AcceptSession \/ RecvAny \/ RecvClosed

ReqSpec == Init /\ [][ReqNext]_vars

(* ------------------------ work units to their end --------------------- *)
\* one session channel, its requests and the work they start, with no Close()
\* and no cancellation
WorkNext ==
    \/ AcceptSession
    \/ \E i \in 1..MaxChans : Recv(i)
    \/ \E w \in 1..MaxWork :
          \/ StartCmd(w) \/ TtyClose(w) \/ WaiterRecv(w) \/ ProcExit(w)
          \/ (\E d \in Copies : CopyEnd(w, d) \/ CopyCloseWaiter(w, d))
          \/ finishCmd(w) \/ ServeEnd(w)

\* every goroutine that can take a step is scheduled in the end, a started
\* process exits in the end and a started io.Copy returns in the end
WorkFairness ==
    \A w \in 1..MaxWork :
        /\ WF_vars(StartCmd(w)) /\ WF_vars(TtyClose(w)) /\ WF_vars(WaiterRecv(w))
        /\ WF_vars(ProcExit(w)) /\ WF_vars(finishCmd(w))
        /\ \A d \in Copies : WF_vars(CopyEnd(w, d)) /\ WF_vars(CopyCloseWaiter(w, d))

WorkSpec == Init /\ [][WorkNext]_vars /\ WorkFairness

(* --------------------------- parseString alone ------------------------ *)
\* the longest buffer given to parseString
MaxBuf == 6

\* byte values that make the length prefix small, large, and large enough to
\* leave an int of 32 bits
ByteVals == {0, 1, 127, 128, 252, 255}

Buffers == UNION { [1..n -> ByteVals] : n \in 0..MaxBuf }

\* the builds: int is 32 bits wide with GOARCH 386 or arm, 64 with amd64 or arm64
IntSizes == {32, 64}

ParseInit ==
    /\ chans = <<>>
    /\ wg = 0
    /\ work = <<>>
    /\ connDone = FALSE
    /\ newchan = [handled |-> 0, answers |-> <<>>, closed |-> FALSE]
    /\ serverLoop = "running"
    /\ closer = [pc |-> "idle", n |-> 0, i |-> 0, errs |-> <<>>, result |-> <<>>]
    /\ sshcon = 0
    /\ lastReq = NoReq
    /\ panicked = FALSE
    /\ parse \in [bits : IntSizes, b : Buffers, out : {<<>>}]

\* parseString(b) is called and returns or panics
ParseString ==
    /\ parse.out = <<>>
    /\ parse' = [parse EXCEPT !.out = <<parseStringOn(parse.bits, parse.b)>>]
    /\ panicked' = parse'.out[1].panic
    /\ UNCHANGED <<chans, wg, work, connDone, newchan, serverLoop, closer, sshcon,
                   lastReq>>

ParseSpec == ParseInit /\ [][ParseString]_vars

(* ------------------------------ claims -------------------------------- *)
\* processReq ran on channel i in this step
ChanStep(i) == i <= Len(chans') /\ chans'[i].nreq = chans[i].nreq + 1

\* a task the connection started is still running: a channel's request loop,
\* a shell, exec or sftp work unit, or a copy goroutine of ttyCmd
LoopRunning == \E i \in 1..Len(chans) : chans[i].loop = "running"
WorkRunning == \E w \in 1..Len(work) : work[w].pc /= "done"
CopyRunning ==
    \E w \in 1..Len(work) :
        \E d \in {"copyIn", "copyOut"} : work[w][d] \in {"running", "closing"}
TaskRunning == LoopRunning \/ WorkRunning \/ CopyRunning

\* C1: once a process started by a shell or exec request on a channel has
\* exited and its work unit is through, the channel has seen exactly one
\* "exit-status" message and exactly one Close of its stream, counting the
\* closes of finishCmd and of ServerConn.Close.
C1_OneExitStatusOneClose ==
    \A w \in 1..Len(work) :
        (work[w].kind /= "sftp" /\ work[w].proc = "exited" /\ work[w].pc = "done")
            => /\ Len(ExitStatus(chans[work[w].ch])) = 1
               /\ Closes(chans[work[w].ch]) = 1

\* C2: when Close() has returned no task the connection started is running.
C2_CloseReturnsAfterAllTasks == closer.pc = "returned" => ~TaskRunning

\* the closes Close() is to attempt for children 1..n, in order
RECURSIVE Attempts(_)
Attempts(n) ==
    IF n = 0 THEN <<>>
    ELSE Attempts(n - 1)
             \o (IF chans[n].pty /= 0 THEN << <<"pty", n>> >> ELSE <<>>)
             \o (IF chans[n].tty /= 0 THEN << <<"tty", n>> >> ELSE <<>>)
             \o (IF chans[n].channel THEN << <<"channel", n>> >> ELSE <<>>)

C4_TeardownOrder ==
    [][ /\ (closer.pc = "range" /\ closer'.i > closer.i) => ~TaskRunning
        /\ (closer.pc = "range" /\ closer'.pc = "sshcon") => closer.i > closer.n
        /\ sshcon' > sshcon => connDone ]_vars

\* C5: the request handled last got exactly one reply if it asked for one and
\* none otherwise; a success reply has an empty payload, a failure reply the
\* payload "<context>: <cause>".
C5_OneReplyPerRequest ==
    lastReq.ch /= 0 =>
        /\ Len(lastReq.replies) = IF lastReq.WantReply THEN 1 ELSE 0
        /\ \A k \in 1..Len(lastReq.replies) :
               LET r == lastReq.replies[k]
               IN  /\ r.ok = lastReq.ok
                   /\ r.ok => r.payload = <<>>
                   /\ ~r.ok => /\ Len(r.payload) = 3
                               /\ Len(r.payload[1]) > 0
                               /\ r.payload[2] = ": "

\* a request that asked for a reply failed and was answered
C5_Witness ==
    /\ lastReq.ch /= 0
    /\ lastReq.WantReply
    /\ ~lastReq.ok
    /\ Len(lastReq.replies) = 1

\* a request processReq failed leaves the channel's stream, its request loop,
\* its scope and the connection as they were
FailedRequestIsLocal ==
    \A i \in 1..Len(chans) :
        (ChanStep(i) /\ ~lastReq'.ok) =>
            /\ chans'[i].ops = chans[i].ops
            /\ chans'[i].loop = "running"
            /\ chans'[i].requests = "open"
            /\ chans'[i].cancelled = chans[i].cancelled
            /\ connDone' = connDone
            /\ sshcon' = sshcon

C7_PtyNeverReplaced ==
    [][ \A i \in 1..Len(chans) :
            chans[i].pty /= 0 =>
                chans'[i].pty = chans[i].pty /\ chans'[i].tty = chans[i].tty ]_vars

\* C8: before Close() releases anything no descriptor or stream of a channel
\* is closed, and when Close() has returned each has been closed exactly once.
C8_DescriptorsClosedOnceAtTeardown ==
    \A i \in 1..Len(chans) :
        /\ closer.pc = "idle" =>
               /\ \A f \in 1..Len(chans[i].files) : chans[i].files[f] = 0
               /\ Closes(chans[i]) = 0
        /\ closer.pc = "returned" =>
               /\ \A f \in 1..Len(chans[i].files) : chans[i].files[f] = 1
               /\ chans[i].channel => Closes(chans[i]) = 1

\* C9: a window-change request handled on a channel for which no pty-req has
\* succeeded fails, is answered with a failure if it asked for a reply, and
\* changes nothing of the channel, the work and the counter.
C9_WindowChangeBeforePty ==
    [][ \A i \in 1..Len(chans) :
            (ChanStep(i) /\ lastReq'.Type = "window-change" /\ chans[i].files = <<>>)
                => /\ ~lastReq'.ok
                   /\ \A k \in 1..Len(lastReq'.replies) : ~lastReq'.replies[k].ok
                   /\ chans'[i] = [chans[i] EXCEPT !.nreq = @ + 1]
                   /\ chans'[i].pty = 0 /\ chans'[i].tty = 0
                   /\ work' = work
                   /\ wg' = wg ]_vars

\* a well-formed window-change was handled, and failed, on a channel that never
\* had a pty
C9_Witness ==
    /\ lastReq.ch /= 0
    /\ lastReq.Type = "window-change"
    /\ lastReq.Payload = Quad(80, 24)
    /\ ~lastReq.ok
    /\ chans[lastReq.ch].files = <<>>

\* exec payloads with a malformed token
MalformedExec == { <<0, 0, 1>>, <<0, 0, 0, 5, 97>>, Str(lsCmd) \o <<0, 0>> }

\* C10: a shell request with a payload or on a channel without a pty, and an
\* exec request with no token or a malformed one, fail; and a shell or exec
\* request that fails is answered with a failure if it asked for a reply and
\* leaves the counter and the work as they were.
C10_FailedShellExecSpawnsNothing ==
    [][ \A i \in 1..Len(chans) :
            ChanStep(i) =>
                /\ ( \/ /\ lastReq'.Type = "shell"
                        /\ (Len(lastReq'.Payload) > 0 \/ chans[i].pty = 0)
                     \/ /\ lastReq'.Type = "exec"
                        /\ (lastReq'.Payload = <<>> \/ lastReq'.Payload \in MalformedExec) )
                   => ~lastReq'.ok
                /\ (lastReq'.Type \in {"shell", "exec"} /\ ~lastReq'.ok)
                   => /\ \A k \in 1..Len(lastReq'.replies) : ~lastReq'.replies[k].ok
                      /\ wg' = wg
                      /\ work' = work ]_vars

\* an exec request with an empty payload was handled, and failed, with only
\* the channel's request loop on the counter
C10_Witness ==
    /\ lastReq.ch /= 0
    /\ lastReq.Type = "exec"
    /\ lastReq.Payload = <<>>
    /\ ~lastReq.ok
    /\ work = <<>>
    /\ wg = 1

\* a channel-open notification was handled in this step
NewChanStep == newchan'.handled = newchan.handled + 1

\* C11: a channel-open notification of a type other than "session" is answered
\* with Reject (unknown channel type), records no Channel, starts no work and
\* leaves the accept loop running and the source of notifications open; a
\* "session" notification handled after a rejection has Accept called on it
\* and, Accept succeeding, its Channel recorded and its loop started.
C11_RejectLeavesLoopRunning ==
    [][ NewChanStep =>
            LET a == newchan'.answers[Len(newchan'.answers)]
            IN  /\ a.type /= "session" =>
                       /\ a.call = "Reject" /\ a.reason = "UnknownChannelType"
                       /\ chans' = chans /\ work' = work /\ wg' = wg
                       /\ serverLoop' = "running" /\ ~newchan'.closed
                       /\ connDone' = connDone /\ sshcon' = sshcon
                /\ a.type = "session" =>
                       /\ a.call = "Accept"
                       /\ Len(chans') = Len(chans) + 1
                       /\ chans'[Len(chans')].loop = "running"
                       /\ chans'[Len(chans')].channel = a.ok
                       /\ wg' = wg + 1 ]_vars

\* a "session" notification was accepted after a rejected one
C11_Witness ==
    /\ Len(newchan.answers) = 2
    /\ newchan.answers[1].call = "Reject"
    /\ newchan.answers[2].call = "Accept" /\ newchan.answers[2].ok
    /\ Len(chans) = 1 /\ chans[1].channel /\ chans[1].loop = "running"

\* channel i's request loop left its select by the Done case in this step
CancelExit(i) ==
    /\ chans[i].loop = "running"
    /\ chans'[i].loop = "done"
    /\ chans'[i].requests = chans[i].requests

\* C12: cancelling the connection's scope, by its owner or by Close(), changes
\* no channel, no work unit and no transport; cancelling a channel's scope
\* touches no other channel, no work unit and not the connection's scope; a
\* request loop leaves by cancellation only when its own scope or the
\* connection's is cancelled, and its leaving changes nothing but that loop
\* and the counter: no descriptor, stream or transport is closed and no
\* process or copy task is ended by it.
C12_CancelOnlyStopsLoops ==
    [][ /\ (connDone' /\ ~connDone) =>
               chans' = chans /\ work' = work /\ sshcon' = sshcon /\ wg' = wg
        /\ \A i \in 1..Len(chans) :
               /\ (chans'[i].cancelled /\ ~chans[i].cancelled) =>
                      /\ \A j \in 1..Len(chans) : j /= i => chans'[j] = chans[j]
                      /\ chans'[i].loop = chans[i].loop
                      /\ work' = work /\ connDone' = connDone /\ sshcon' = sshcon
               /\ CancelExit(i) =>
                      /\ chans[i].cancelled \/ connDone
                      /\ chans' = [chans EXCEPT ![i].loop = "done"]
                      /\ work' = work /\ sshcon' = sshcon /\ connDone' = connDone ]_vars

\* Close() has cancelled one channel's scope and closed its stream while the
\* loop of a sibling, its scope not cancelled, runs on with its stream open
C12_WitnessSibling ==
    /\ Len(chans) = 2
    /\ ~connDone
    /\ \E i, j \in 1..2 :
          /\ chans[i].cancelled /\ chans[i].loop = "done"
          /\ ~chans[j].cancelled /\ chans[j].loop = "running"
          /\ chans[j].channel /\ Closes(chans[j]) = 0

\* the connection's scope is cancelled and a channel's loop has left by it
\* while a process started on the channel runs on, its stream not closed
C12_Witness ==
    /\ connDone
    /\ closer.pc = "idle"
    /\ \E w \in 1..Len(work) :
          /\ work[w].proc = "running"
          /\ chans[work[w].ch].loop = "done"
          /\ chans[work[w].ch].requests = "open"
          /\ Closes(chans[work[w].ch]) = 0

\* channel i is live: its request loop is running or work it started is not
\* through
Live(i) ==
    \/ chans[i].loop = "running"
    \/ \E w \in 1..Len(work) : work[w].ch = i /\ work[w].pc /= "done"

\* C13: every notification answered with Accept has its Channel in the list
\* of children, and once Close() has begun its range over the list every live
\* channel is among the children that range goes over.
C13_LiveChannelsEnumerated ==
    /\ Len(chans) = Len(SelectSeq(newchan.answers, LAMBDA a : a.call = "Accept"))
    /\ closer.pc /= "idle" => \A i \in 1..Len(chans) : Live(i) => i <= closer.n

\* the value of the length prefix of b is n, a number below 65536
PrefixIs(b, n) == b[1] = 0 /\ b[2] = 0 /\ b[3] * 256 + b[4] = n

\* C14: a call of parseString on buffer b returns; it succeeds exactly when b
\* has at least 4 bytes and at least L + 4, L being the big-endian value of
\* the first four; on success it returns the L bytes after the prefix and
\* consumed = L + 4, on failure the empty string and consumed = 0.
C14_ParseStringExact ==
    parse.out /= <<>> =>
        LET b == parse.b
            o == parse.out[1]
            fits == Len(b) >= 4 /\ \E n \in 0..(Len(b) - 4) : PrefixIs(b, n)
        IN  /\ ~o.panic
            /\ (o.err = nil) <=> fits
            /\ fits => \E n \in 0..(Len(b) - 4) :
                           /\ PrefixIs(b, n)
                           /\ o.result = SubSeq(b, 5, n + 4)
                           /\ o.consumed = n + 4
            /\ ~fits => o.result = <<>> /\ o.consumed = 0

\* the same for the builds whose int has 64 bits
C14_ParseStringExact64 ==
    (parse.out /= <<>> /\ parse.bits = 64) =>
        LET b == parse.b
            o == parse.out[1]
            fits == Len(b) >= 4 /\ \E n \in 0..(Len(b) - 4) : PrefixIs(b, n)
        IN  /\ ~o.panic
            /\ (o.err = nil) <=> fits
            /\ fits => \E n \in 0..(Len(b) - 4) :
                           /\ PrefixIs(b, n)
                           /\ o.result = SubSeq(b, 5, n + 4)
                           /\ o.consumed = n + 4
            /\ ~fits => o.result = <<>> /\ o.consumed = 0

\* finishCmd has been entered by work unit w: ttyCmd's deferred functions run
\* last in, first out, finishCmd after the one that receives from waiter
FinishStarted(w) == work[w].pc \in {"cmdWait", "done"}

\* C15: in a terminal-bound run finishCmd is entered only when both copy
\* tasks have ended, and the tty is not closed by the run while both copy tasks
\* are still running.
C15_FinishAfterBothCopies ==
    \A w \in 1..Len(work) :
        work[w].bound = "tty" =>
            /\ FinishStarted(w) => work[w].copyIn = "done" /\ work[w].copyOut = "done"
            /\ (work[w].copyIn = "running" /\ work[w].copyOut = "running"
                    /\ closer.pc = "idle" /\ Len(work) = 1)
                   => chans[work[w].ch].files[chans[work[w].ch].tty] = 0

\* C16: the waiter channel of a terminal-bound run is closed at most once, and
\* exactly once when both copy tasks have ended.
C16_WaiterClosedOnce ==
    \A w \in 1..Len(work) :
        /\ work[w].waiter <= 1
        /\ (work[w].copyIn = "done" /\ work[w].copyOut = "done") => work[w].waiter = 1

\* the entries of the channel's environment list given to the process of w
ChannelEnv(w) ==
    IF work[w].bound = "tty" THEN SubSeq(work[w].env, 3, Len(work[w].env)) ELSE <<>>

\* C17: the process of a shell or exec request is pty-bound exactly when the
\* channel had a tty as the request was processed, and is given the channel's
\* environment list as it was then, whatever requests were handled after it.
C17_BoundAsWhenRequested ==
    \A w \in 1..Len(work) :
        (work[w].kind /= "sftp" /\ work[w].bound /= "unset") =>
            /\ work[w].bound = IF work[w].atReq.tty /= 0 THEN "tty" ELSE "pipe"
            /\ ChannelEnv(w) = work[w].atReq.env

\* the four bytes finishCmd is to send for work unit w: 255 when there is no
\* process state, else the exit code, -1 (a signal) being 0xffffffff
ExitBytes(w) ==
    IF work[w].proc /= "exited" THEN <<0, 0, 0, 255>>
    ELSE IF work[w].code = -1 THEN <<255, 255, 255, 255>>
    ELSE <<0, 0, 0, work[w].code>>

\* C18: finishCmd runs only when the process is not running any more, and
\* whether the wait failed or not and whether the stream was closed before or
\* not it makes, in this order and with nothing of its own in between,
\* CloseWrite, SendRequest("exit-status", false, code) and Close on the
\* channel's stream, the code being 255 when the process state is missing.
C18_FinishCmdOrder ==
    [][ \A w \in 1..Len(work) :
            (work[w].kind /= "sftp" /\ work[w].pc = "cmdWait" /\ work'[w].pc = "done") =>
                /\ work[w].proc /= "running"
                /\ chans'[work[w].ch].ops =
                       chans[work[w].ch].ops
                           \o << [op |-> "CloseWrite", payload |-> <<>>],
                                 [op |-> "exit-status", wantReply |-> FALSE,
                                  payload |-> ExitBytes(w)],
                                 [op |-> "Close", payload |-> <<>>] >> ]_vars

\* finishCmd has run for a process that never started, on a stream that was
\* closed before: the wait and the half-close failed, and exit-status 255 and
\* the close followed all the same
C18_Witness ==
    \E w \in 1..Len(work) :
        LET ops == chans[work[w].ch].ops
            n == Len(ops)
        IN  /\ work[w].kind /= "sftp" /\ work[w].pc = "done" /\ work[w].proc = "none"
            /\ n > 3
            /\ ops[n - 3].op = "Close"
            /\ ops[n - 2].op = "CloseWrite"
            /\ ops[n - 1].op = "exit-status" /\ ops[n - 1].payload = <<0, 0, 0, 255>>
            /\ ops[n].op = "Close"

\* C19: every work unit of a shell or exec request runs finishCmd and marks
\* itself done on the counter in the end, whether its process started or not
\* and whether it is pty-bound or pipe-bound, unless the process of the server
\* itself is gone.
C19_WorkFinishes ==
    \A w \in 1..MaxWork :
        []((w <= Len(work) /\ work[w].kind /= "sftp")
               => <>(panicked \/ (w <= Len(work) /\ work[w].pc = "done")))

\* C20: every recorded Channel has a stream and a request source, and there is
\* one for every "session" notification whose Accept succeeded and for no
\* other.
C20_RecordedChannelsAreValid ==
    /\ \A i \in 1..Len(chans) : chans[i].channel /\ chans[i].requests /= "nil"
    /\ Len(chans) = Len(SelectSeq(newchan.answers,
                                  LAMBDA a : a.type = "session" /\ a.call = "Accept" /\ a.ok))

====
